---------------------------- MODULE Spec2Model ----------------------------
(***************************************************************************)
(* Source Wrench editor front end: the loaded-source-file reference cache  *)
(* (FileOperations.tsx), the animation and body-part-model entries that    *)
(* acquire and release files through it, and the asynchronous file         *)
(* selection that connects them.                                           *)
(*                                                                         *)
(* The front end runs on one event loop.  A handler runs to its next       *)
(* await without interruption; the awaits on the file dialog (open) and on *)
(* the backend commands (invoke) are the points where other handlers run.  *)
(* Each action below is one such run-to-suspension segment.                *)
(***************************************************************************)
EXTENDS Integers, Sequences, FiniteSets, Bags, TLC

(***************************************************************************)
(* Bounds of the model.                                                    *)
(***************************************************************************)
MaxUserActions == 5     \* entries added plus file selections started

(***************************************************************************)
(* The files the dialog can return.  An operation names at most two paths  *)
(* (previousPath and path); the third stands for every other path.         *)
(***************************************************************************)
Paths == {"a.smd", "b.smd", "c.smd"}

\* The initial value of the selectedFile signals and of file_source.
NoPath == ""

\* What the user types into a name field or a grid cell.
TypedNames == {"idle"}

\* The directories the export-path dialog can return.
ExportDirectories == {"out"}

\* null in a part_names slot: a value no part name equals.
null == "<null>"

VARIABLES
    loadedModelFiles,                   \* Map<string, number>: path -> count
    animationEntries,                   \* App's animationEntries store (+ each entry's signals)
    animationEntryIdentifierGenerator,  \* AnimationMenu's identifier counter
    bodyPartEntries,                    \* App's bodyPartEntries store (+ each entry's local store)
    bodyPartIdentifierGenerator,        \* BodyPartMenu's identifier counter
    sequenceEntries,                    \* App's sequenceEntries store (+ each entry's grid signal)
    animationEntrySequenceGenerator,    \* SequenceMenu's identifier counter
    modelName,                          \* App's modelName signal
    modelExportPath,                    \* App's modelExportPath signal
    tasks,                              \* bag of the file selections in flight (suspended onClick handlers)
    userActions,                        \* entries added plus file selections started so far
    net,                                \* per path: completed acquires minus releases
    shutdown,                           \* the beforeunload handler has run
    backend,                            \* per path: the last command the backend was sent for it
    last                                \* the segment that produced this state and what it issued

vars == <<loadedModelFiles, animationEntries, animationEntryIdentifierGenerator,
          bodyPartEntries, bodyPartIdentifierGenerator, sequenceEntries,
          animationEntrySequenceGenerator, modelName, modelExportPath, tasks,
          userActions, net, shutdown, backend, last>>

\* The sequence store and App's two signals, which the file handlers never touch.
sequenceVars == <<sequenceEntries, animationEntrySequenceGenerator>>

appSignals == <<modelName, modelExportPath>>

(***************************************************************************)
(* Map<string, number> operations.  A map is a function whose domain is    *)
(* the set of keys present.                                                *)
(***************************************************************************)
EmptyMap == [k \in {} |-> 0]

MapHas(m, k) == k \in DOMAIN m

MapSet(m, k, v) == [x \in DOMAIN m \cup {k} |-> IF x = k THEN v ELSE m[x]]

MapDelete(m, k) == [x \in DOMAIN m \ {k} |-> m[x]]

\* map.get(k) ?? d
MapGetOr(m, k, d) == IF MapHas(m, k) THEN m[k] ELSE d

(***************************************************************************)
(* Commands sent to the backend with invoke().                             *)
(***************************************************************************)
Cmd(name, path) == [cmd |-> name, path |-> path]

NoCmds == EmptyBag

OneCmd(name, path) == SetToBag({Cmd(name, path)})

\* How many times a segment issued the command.
Issued(bag, name, path) == CopiesIn(Cmd(name, path), bag)

(***************************************************************************)
(* The parsing oracle's answer for a file: the names of its animations and *)
(* of its parts, in file order.                                            *)
(***************************************************************************)
FileAnimations(p) == <<p \o "#anim0", p \o "#anim1">>

FileParts(p) == <<p \o "#part0", p \o "#part1">>


(***************************************************************************)
(* FileOperations.tsx.  Each operation returns the new map together with   *)
(* what the call did: the commands it issued, the map after its first      *)
(* mutation (mid), and whether it ends suspended on an awaited invoke.     *)
(***************************************************************************)
CacheResult(map, mid, issued, awaits) ==
    [map |-> map, mid |-> mid, issued |-> issued, awaits |-> awaits]

\* Variants of manageLoadedModelFiles, each with one slip.
\* The new path is set to 1 instead of being incremented.
manageLoadedModelFilesResets(m, previousPath, path) ==
    IF previousPath = path
    THEN CacheResult(m, m, NoCmds, FALSE)
    ELSE LET mid == MapSet(m, path, 1)
         IN  IF ~MapHas(mid, previousPath)
             THEN CacheResult(mid, mid, NoCmds, FALSE)
             ELSE LET currentCount == mid[previousPath] - 1
                  IN  IF currentCount <= 0
                      THEN CacheResult(MapDelete(mid, previousPath), mid,
                                       OneCmd("unload_file", previousPath), TRUE)
                      ELSE CacheResult(MapSet(mid, previousPath, currentCount), mid,
                                       NoCmds, FALSE)

\* The previous path is deleted and unloaded one release early (currentCount <= 1).
manageLoadedModelFilesDeletesEarly(m, previousPath, path) ==
    IF previousPath = path
    THEN CacheResult(m, m, NoCmds, FALSE)
    ELSE LET filePathCount == MapGetOr(m, path, 0)
             mid == MapSet(m, path, filePathCount + 1)
         IN  IF ~MapHas(mid, previousPath)
             THEN CacheResult(mid, mid, NoCmds, FALSE)
             ELSE LET currentCount == mid[previousPath] - 1
                  IN  IF currentCount <= 1
                      THEN CacheResult(MapDelete(mid, previousPath), mid,
                                       OneCmd("unload_file", previousPath), TRUE)
                      ELSE CacheResult(MapSet(mid, previousPath, currentCount), mid,
                                       NoCmds, FALSE)

\* The previous path is released before the new path is counted.
ReleaseThenAcquire(m, previousPath, path) ==
    LET released ==
            IF ~MapHas(m, previousPath) THEN m
            ELSE IF m[previousPath] - 1 <= 0 THEN MapDelete(m, previousPath)
            ELSE MapSet(m, previousPath, m[previousPath] - 1)
        unloads ==
            IF MapHas(m, previousPath) /\ m[previousPath] - 1 <= 0
            THEN OneCmd("unload_file", previousPath) ELSE NoCmds
    IN  CacheResult(MapSet(released, path, MapGetOr(released, path, 0) + 1), released,
                    unloads, unloads # NoCmds)

manageLoadedModelFilesReleasesFirst(m, previousPath, path) ==
    IF previousPath = path
    THEN CacheResult(m, m, NoCmds, FALSE)
    ELSE ReleaseThenAcquire(m, previousPath, path)

\* As the previous one, and without the previousPath === path early return.
manageLoadedModelFilesNoEarlyReturn(m, previousPath, path) ==
    ReleaseThenAcquire(m, previousPath, path)

manageLoadedModelFiles(m, previousPath, path) ==
    IF previousPath = path
    THEN CacheResult(m, m, NoCmds, FALSE)
    ELSE LET filePathCount == MapGetOr(m, path, 0)
             mid == MapSet(m, path, filePathCount + 1)
         IN  IF ~MapHas(mid, previousPath)
             THEN CacheResult(mid, mid, NoCmds, FALSE)
             ELSE LET currentCount == mid[previousPath] - 1
                  IN  IF currentCount <= 0
                      THEN CacheResult(MapDelete(mid, previousPath), mid,
                                       OneCmd("unload_file", previousPath), TRUE)
                      ELSE CacheResult(MapSet(mid, previousPath, currentCount), mid,
                                       NoCmds, FALSE)

\* Variants of unloadModelFile, each with one slip.
\* The entry is deleted only below zero (newCount < 0), so a zero is stored.
unloadModelFileStoresZero(m, path) ==
    IF path = NoPath
    THEN CacheResult(m, m, NoCmds, FALSE)
    ELSE LET filePathCount == MapGetOr(m, path, 1)
             newCount == filePathCount - 1
         IN  IF newCount < 0
             THEN CacheResult(MapDelete(m, path), m, OneCmd("unload_file", path), TRUE)
             ELSE CacheResult(MapSet(m, path, newCount), m, NoCmds, FALSE)

\* A missing path counts as 0 (?? 0) instead of 1.
unloadModelFileDefaultsToZero(m, path) ==
    IF path = NoPath
    THEN CacheResult(m, m, NoCmds, FALSE)
    ELSE LET filePathCount == MapGetOr(m, path, 0)
             newCount == filePathCount - 1
         IN  IF newCount = 0
             THEN CacheResult(MapDelete(m, path), m, OneCmd("unload_file", path), TRUE)
             ELSE CacheResult(MapSet(m, path, newCount), m, NoCmds, FALSE)

\* Variant of unloadModelFile: the empty path is released like any other.
unloadModelFileOfAnyPath(m, path) ==
    LET filePathCount == MapGetOr(m, path, 1)
        newCount == filePathCount - 1
    IN  IF newCount = 0
        THEN CacheResult(MapDelete(m, path), m, OneCmd("unload_file", path), TRUE)
        ELSE CacheResult(MapSet(m, path, newCount), m, NoCmds, FALSE)

\* Variant of unloadModelFile: a count that stays positive is not written back.
unloadModelFileKeepsCount(m, path) ==
    IF path = NoPath
    THEN CacheResult(m, m, NoCmds, FALSE)
    ELSE LET filePathCount == MapGetOr(m, path, 1)
             newCount == filePathCount - 1
         IN  IF newCount = 0
             THEN CacheResult(MapDelete(m, path), m, OneCmd("unload_file", path), TRUE)
             ELSE CacheResult(m, m, NoCmds, FALSE)

unloadModelFile(m, path) ==
    IF path = NoPath
    THEN CacheResult(m, m, NoCmds, FALSE)
    ELSE LET filePathCount == MapGetOr(m, path, 1)
             newCount == filePathCount - 1
         IN  IF newCount = 0
             THEN CacheResult(MapDelete(m, path), m, OneCmd("unload_file", path), TRUE)
             ELSE CacheResult(MapSet(m, path, newCount), m, NoCmds, FALSE)

\* Variant of the beforeunload listener: one unload_file per reference held.
beforeunloadPerReference(m) ==
    CacheResult(EmptyMap, m,
                [c \in {Cmd("unload_file", p) : p \in DOMAIN m} |-> m[c.path]], FALSE)

\* The beforeunload listener: one unload_file per key, then clear().
beforeunload(m) ==
    CacheResult(EmptyMap, m, SetToBag({Cmd("unload_file", p) : p \in DOMAIN m}), FALSE)

(***************************************************************************)
(* Bookkeeping of acquire and release calls, per path.  An acquire is the  *)
(* increment manageLoadedModelFiles makes for `path`; a release is a call  *)
(* of unloadModelFile on a path, or the release half of                    *)
(* manageLoadedModelFiles for a previousPath that is a path.  `all` counts *)
(* every release, `found` only the releases that found the path in the map.*)
(***************************************************************************)
Bump(n, p, d) == [n EXCEPT ![p] = [all |-> @.all + d.all, found |-> @.found + d.found]]

NetAfterManage(n, m, previousPath, path) ==
    IF previousPath = path THEN n
    ELSE LET n1 == Bump(n, path, [all |-> 1, found |-> 1])
         IN  IF previousPath = NoPath THEN n1
             ELSE Bump(n1, previousPath,
                       [all |-> -1, found |-> IF MapHas(m, previousPath) THEN -1 ELSE 0])

NetAfterUnload(n, m, path) ==
    IF path = NoPath THEN n
    ELSE Bump(n, path, [all |-> -1, found |-> IF MapHas(m, path) THEN -1 ELSE 0])

(***************************************************************************)
(* Store helpers: setStore(predicate, ...) patches every element the       *)
(* predicate selects and is a no-op when it selects none; removal filters  *)
(* the array on the identifier.                                            *)
(***************************************************************************)
HasIdentifier(entries, id) == \E i \in DOMAIN entries : entries[i].identifier = id

EntryOf(entries, id) == entries[CHOOSE i \in DOMAIN entries : entries[i].identifier = id]

\* Variant of Patch: an update that selects no element inserts one.
PatchOrInsert(entries, id, fields) ==
    IF \E i \in DOMAIN entries : entries[i].identifier = id
    THEN [i \in DOMAIN entries |->
             IF entries[i].identifier = id
             THEN [f \in DOMAIN entries[i] |->
                      IF f \in DOMAIN fields THEN fields[f] ELSE entries[i][f]]
             ELSE entries[i]]
    ELSE Append(entries, fields)

Patch(entries, id, fields) ==
    [i \in DOMAIN entries |->
        IF entries[i].identifier = id
        THEN [f \in DOMAIN entries[i] |->
                 IF f \in DOMAIN fields THEN fields[f] ELSE entries[i][f]]
        ELSE entries[i]]

\* The identifiers of a collection.
Identifiers(entries) == {entries[i].identifier : i \in DOMAIN entries}

FilterOut(entries, id) == SelectSeq(entries, LAMBDA e : e.identifier # id)

(***************************************************************************)
(* The backend end of invoke(): for each file, the last of load_file and   *)
(* unload_file it was sent, in the order the handlers issued them.  No     *)
(* segment issues both for one path.                                       *)
(***************************************************************************)
Notified(sent, issued) ==
    [p \in Paths |->
        IF Issued(issued, "unload_file", p) > 0 THEN "unload"
        ELSE IF Issued(issued, "load_file", p) > 0 THEN "load"
        ELSE sent[p]]

(***************************************************************************)
(* What the last segment was: its name, the paths it was called with, the  *)
(* map before it and after its first mutation, the commands it issued, and *)
(* the data argument of each compile_model among them.                     *)
(***************************************************************************)
Last(op, previousPath, path, mid, issued) ==
    [op |-> op, prev |-> previousPath, path |-> path,
     before |-> loadedModelFiles, mid |-> mid, issued |-> issued, data |-> <<>>]

(***************************************************************************)
(* Initial state: App's stores are empty, the identifier generators are 0, *)
(* the map is empty.                                                       *)
(***************************************************************************)
Init ==
    /\ loadedModelFiles = EmptyMap
    /\ animationEntries = <<>>
    /\ animationEntryIdentifierGenerator = 0
    /\ bodyPartEntries = <<>>
    /\ bodyPartIdentifierGenerator = 0
    /\ sequenceEntries = <<>>
    /\ animationEntrySequenceGenerator = 0
    /\ modelName = ""
    /\ modelExportPath = ""
    /\ tasks = EmptyBag
    /\ userActions = 0
    /\ net = [p \in Paths |-> [all |-> 0, found |-> 0]]
    /\ shutdown = FALSE
    /\ backend = [p \in Paths |-> "none"]
    /\ last = Last("init", NoPath, NoPath, loadedModelFiles, NoCmds)

(***************************************************************************)
(* AnimationMenu / AnimationEntry.                                         *)
(***************************************************************************)
\* Variant of createNewAnimation: the identifier is the length of the collection.
createNewAnimationByLength ==
    [identifier |-> Len(animationEntries),
     name |-> "New Animation",
     file_source |-> NoPath,
     source_animation |-> "",
     selectedFile |-> NoPath,
     availableAnimations |-> <<>>]

createNewAnimation ==
    [identifier |-> animationEntryIdentifierGenerator,
     name |-> "New Animation",
     file_source |-> NoPath,
     source_animation |-> "",
     selectedFile |-> NoPath,             \* createSignal('')
     availableAnimations |-> <<>>]        \* createSignal([])

addAnimation ==
    /\ ~shutdown
    /\ userActions < MaxUserActions
    /\ userActions' = userActions + 1
    /\ animationEntries' = Append(animationEntries, createNewAnimation)
    /\ animationEntryIdentifierGenerator' = animationEntryIdentifierGenerator + 1
    /\ last' = Last("addAnimation", NoPath, NoPath, loadedModelFiles, NoCmds)
    /\ UNCHANGED <<loadedModelFiles, bodyPartEntries, bodyPartIdentifierGenerator,
                   tasks, net, shutdown>>
    /\ UNCHANGED <<sequenceVars, appSignals>>

\* unloadModelFile(selectedFile()) runs up to its invoke, then the entry is
\* filtered out; nothing follows the awaited invoke.
removeAnimation(id) ==
    /\ ~shutdown
    /\ HasIdentifier(animationEntries, id)
    /\ LET path == EntryOf(animationEntries, id).selectedFile
           r == unloadModelFile(loadedModelFiles, path)
       IN  /\ loadedModelFiles' = r.map
           /\ net' = NetAfterUnload(net, loadedModelFiles, path)
           /\ last' = Last("removeAnimation", NoPath, path, r.mid, r.issued)
    /\ animationEntries' = FilterOut(animationEntries, id)
    /\ UNCHANGED <<animationEntryIdentifierGenerator, bodyPartEntries,
                   bodyPartIdentifierGenerator, tasks, userActions, shutdown>>
    /\ UNCHANGED <<sequenceVars, appSignals>>

(***************************************************************************)
(* A file selection in flight: the onClick handler of an entry's File      *)
(* input, suspended inside loadModelFile.  pc names the await it is        *)
(* suspended on: "open" (the dialog), "load_file", "unload_file".          *)
(***************************************************************************)
Task(kind, owner, previousPath, pc, path) ==
    [kind |-> kind, owner |-> owner, prev |-> previousPath, pc |-> pc, path |-> path]

Suspend(t) == tasks (+) SetToBag({t})

Resume(t) == tasks (-) SetToBag({t})

Suspended(pc) == {t \in BagToSet(tasks) : t.pc = pc}

\* onClick: loadModelFile(selectedFile()) is called and suspends on open().
clickAnimationFile(id) ==
    /\ ~shutdown
    /\ userActions < MaxUserActions
    /\ HasIdentifier(animationEntries, id)
    /\ userActions' = userActions + 1
    /\ tasks' = Suspend(Task("animation", <<id>>,
                             EntryOf(animationEntries, id).selectedFile, "open", NoPath))
    /\ last' = Last("click", EntryOf(animationEntries, id).selectedFile, NoPath,
                    loadedModelFiles, NoCmds)
    /\ UNCHANGED <<loadedModelFiles, animationEntries, animationEntryIdentifierGenerator,
                   bodyPartEntries, bodyPartIdentifierGenerator, net, shutdown>>
    /\ UNCHANGED <<sequenceVars, appSignals>>

(***************************************************************************)
(* BodyPartMenu / BodyPartEntry / BodyPartModelEntry.                      *)
(***************************************************************************)
\* data.models holds a reference to an array: the literal array it was created
\* with (an array of its own), or the array of the BodyPartEntry's local store,
\* in which case reading it reads the local store.
OwnArray(array) == [shared |-> FALSE, array |-> array]

SharedArray == [shared |-> TRUE, array |-> <<>>]

createNewBodyPart ==
    [identifier |-> bodyPartIdentifierGenerator,
     name |-> "New Body Part",
     data_models |-> OwnArray(<<>>),              \* data.models: []
     models |-> <<>>,                             \* createStore([])
     bodyPartModelIdentifierGenerator |-> 0]

\* bodyPart.data.models as compileModel reads it.
DataModels(bodyPart) ==
    IF bodyPart.data_models.shared THEN bodyPart.models ELSE bodyPart.data_models.array

addBodyPart ==
    /\ ~shutdown
    /\ userActions < MaxUserActions
    /\ userActions' = userActions + 1
    /\ bodyPartEntries' = Append(bodyPartEntries, createNewBodyPart)
    /\ bodyPartIdentifierGenerator' = bodyPartIdentifierGenerator + 1
    /\ last' = Last("addBodyPart", NoPath, NoPath, loadedModelFiles, NoCmds)
    /\ UNCHANGED <<loadedModelFiles, animationEntries, animationEntryIdentifierGenerator,
                   tasks, net, shutdown>>
    /\ UNCHANGED <<sequenceVars, appSignals>>

\* Filters the body part out of the store; no file is released.
removeBodyPart(b) ==
    /\ ~shutdown
    /\ HasIdentifier(bodyPartEntries, b)
    /\ bodyPartEntries' = FilterOut(bodyPartEntries, b)
    /\ last' = Last("removeBodyPart", NoPath, NoPath, loadedModelFiles, NoCmds)
    /\ UNCHANGED <<loadedModelFiles, animationEntries, animationEntryIdentifierGenerator,
                   bodyPartIdentifierGenerator, tasks, userActions, net, shutdown>>
    /\ UNCHANGED <<sequenceVars, appSignals>>

createNewBodyPartModel(bodyPart) ==
    [identifier |-> bodyPart.bodyPartModelIdentifierGenerator,
     name |-> "New Model",
     blank |-> FALSE,                     \* and createSignal(properties.data.blank)
     file_source |-> NoPath,
     part_names |-> <<>>,
     selectedFile |-> NoPath,             \* createSignal('')
     availableParts |-> <<>>]             \* createSignal([])

\* Variant of addBodyPartModel: data.models receives a copy of the local store.
addBodyPartModelCopies(b) ==
    /\ ~shutdown
    /\ HasIdentifier(bodyPartEntries, b)
    /\ LET bodyPart == EntryOf(bodyPartEntries, b)
           added == Append(bodyPart.models, createNewBodyPartModel(bodyPart))
       IN  /\ userActions < MaxUserActions
           /\ userActions' = userActions + 1
           /\ bodyPartEntries' = Patch(bodyPartEntries, b,
                  [models |-> added,
                   data_models |-> OwnArray(added),
                   bodyPartModelIdentifierGenerator |->
                       bodyPart.bodyPartModelIdentifierGenerator + 1])
    /\ last' = Last("addBodyPartModel", NoPath, NoPath, loadedModelFiles, NoCmds)
    /\ UNCHANGED <<loadedModelFiles, animationEntries, animationEntryIdentifierGenerator,
                   bodyPartIdentifierGenerator, tasks, net, shutdown>>
    /\ UNCHANGED <<sequenceVars, appSignals>>

addBodyPartModel(b) ==
    /\ ~shutdown
    /\ HasIdentifier(bodyPartEntries, b)
    /\ LET bodyPart == EntryOf(bodyPartEntries, b)
       IN  /\ userActions < MaxUserActions
           /\ userActions' = userActions + 1
           /\ bodyPartEntries' = Patch(bodyPartEntries, b,
                  [models |-> Append(bodyPart.models, createNewBodyPartModel(bodyPart)),
                   data_models |-> SharedArray,
                   bodyPartModelIdentifierGenerator |->
                       bodyPart.bodyPartModelIdentifierGenerator + 1])
    /\ last' = Last("addBodyPartModel", NoPath, NoPath, loadedModelFiles, NoCmds)
    /\ UNCHANGED <<loadedModelFiles, animationEntries, animationEntryIdentifierGenerator,
                   bodyPartIdentifierGenerator, tasks, net, shutdown>>
    /\ UNCHANGED <<sequenceVars, appSignals>>

\* Filters the model out of the body part's store; no file is released.
removeBodyPartModel(b, m) ==
    /\ ~shutdown
    /\ HasIdentifier(bodyPartEntries, b)
    /\ HasIdentifier(EntryOf(bodyPartEntries, b).models, m)
    /\ bodyPartEntries' = Patch(bodyPartEntries, b,
           [models |-> FilterOut(EntryOf(bodyPartEntries, b).models, m)])
    /\ last' = Last("removeBodyPartModel", NoPath,
                    EntryOf(EntryOf(bodyPartEntries, b).models, m).selectedFile,
                    loadedModelFiles, NoCmds)
    /\ UNCHANGED <<loadedModelFiles, animationEntries, animationEntryIdentifierGenerator,
                   bodyPartIdentifierGenerator, tasks, userActions, net, shutdown>>
    /\ UNCHANGED <<sequenceVars, appSignals>>

clickModelFile(b, m) ==
    /\ ~shutdown
    /\ userActions < MaxUserActions
    /\ HasIdentifier(bodyPartEntries, b)
    /\ HasIdentifier(EntryOf(bodyPartEntries, b).models, m)
    /\ ~EntryOf(EntryOf(bodyPartEntries, b).models, m).blank      \* <Show when={!isBlank()}>
    /\ LET previousPath == EntryOf(EntryOf(bodyPartEntries, b).models, m).selectedFile
       IN  /\ tasks' = Suspend(Task("model", <<b, m>>, previousPath, "open", NoPath))
           /\ last' = Last("click", previousPath, NoPath, loadedModelFiles, NoCmds)
    /\ userActions' = userActions + 1
    /\ UNCHANGED <<loadedModelFiles, animationEntries, animationEntryIdentifierGenerator,
                   bodyPartEntries, bodyPartIdentifierGenerator, net, shutdown>>
    /\ UNCHANGED <<sequenceVars, appSignals>>

(***************************************************************************)
(* The rest of an onClick handler once loadModelFile has returned the      *)
(* loaded file: the entry's store fields and signals are set.  The store   *)
(* setters select by identifier, so they change nothing when the entry has *)
(* been removed.                                                           *)
(***************************************************************************)
AnimationsAfterLoad(t) ==
    IF t.kind = "animation"
    THEN Patch(animationEntries, t.owner[1],
               [file_source |-> t.path,
                source_animation |-> Head(FileAnimations(t.path)),
                availableAnimations |-> FileAnimations(t.path),
                selectedFile |-> t.path])
    ELSE animationEntries

\* Variant of BodyPartsAfterLoad: setBodyPartModelParts is not called.
BodyPartsAfterLoadKeepsParts(t) ==
    IF t.kind = "model" /\ HasIdentifier(bodyPartEntries, t.owner[1])
    THEN Patch(bodyPartEntries, t.owner[1],
               [models |-> Patch(EntryOf(bodyPartEntries, t.owner[1]).models, t.owner[2],
                                 [file_source |-> t.path,
                                  availableParts |-> FileParts(t.path),
                                  selectedFile |-> t.path])])
    ELSE bodyPartEntries

BodyPartsAfterLoad(t) ==
    IF t.kind = "model" /\ HasIdentifier(bodyPartEntries, t.owner[1])
    THEN Patch(bodyPartEntries, t.owner[1],
               [models |-> Patch(EntryOf(bodyPartEntries, t.owner[1]).models, t.owner[2],
                                 [file_source |-> t.path,
                                  part_names |-> FileParts(t.path),
                                  availableParts |-> FileParts(t.path),
                                  selectedFile |-> t.path])])
    ELSE bodyPartEntries

(***************************************************************************)
(* loadModelFile, one action per run-to-suspension segment.  The awaited   *)
(* invoke('unload_file') resolves (unloadFileReturned); the source handles *)
(* no rejection of it, and what a rejection does is unloadFileRejected,    *)
(* which only SpecUnloadFails admits.                                      *)
(***************************************************************************)
\* Variant of openNull: a cancelled dialog clears the entry's file, as the
\* export-path button of App does.
openNullClears(t) ==
    /\ ~shutdown
    /\ t \in Suspended("open")
    /\ tasks' = Resume(t)
    /\ animationEntries' =
           IF t.kind = "animation"
           THEN Patch(animationEntries, t.owner[1], [file_source |-> NoPath])
           ELSE animationEntries
    /\ last' = Last("openNull", t.prev, NoPath, loadedModelFiles, NoCmds)
    /\ UNCHANGED <<loadedModelFiles, animationEntryIdentifierGenerator,
                   bodyPartEntries, bodyPartIdentifierGenerator, userActions, net,
                   shutdown>>
    /\ UNCHANGED <<sequenceVars, appSignals>>

\* open() resolves to null (the dialog was cancelled): loadModelFile returns
\* null and the handler returns.
openNull(t) ==
    /\ ~shutdown
    /\ t \in Suspended("open")
    /\ tasks' = Resume(t)
    /\ last' = Last("openNull", t.prev, NoPath, loadedModelFiles, NoCmds)
    /\ UNCHANGED <<loadedModelFiles, animationEntries, animationEntryIdentifierGenerator,
                   bodyPartEntries, bodyPartIdentifierGenerator, userActions, net, shutdown>>
    /\ UNCHANGED <<sequenceVars, appSignals>>

\* Variant of openSelected: load_file is skipped for a path the map holds.
openSelectedSkipsCached(t, selectedFile) ==
    /\ ~shutdown
    /\ t \in Suspended("open")
    /\ tasks' = Resume(t) (+) SetToBag({[t EXCEPT !.pc = "load_file", !.path = selectedFile]})
    /\ last' = Last("openSelected", t.prev, selectedFile, loadedModelFiles,
                    IF MapHas(loadedModelFiles, selectedFile)
                    THEN NoCmds ELSE OneCmd("load_file", selectedFile))
    /\ UNCHANGED <<loadedModelFiles, animationEntries, animationEntryIdentifierGenerator,
                   bodyPartEntries, bodyPartIdentifierGenerator, userActions, net,
                   shutdown>>
    /\ UNCHANGED <<sequenceVars, appSignals>>

\* open() resolves to a path: invoke('load_file', { path }) is issued and awaited.
openSelected(t, selectedFile) ==
    /\ ~shutdown
    /\ t \in Suspended("open")
    /\ tasks' = Resume(t) (+) SetToBag({[t EXCEPT !.pc = "load_file", !.path = selectedFile]})
    /\ last' = Last("openSelected", t.prev, selectedFile, loadedModelFiles,
                    OneCmd("load_file", selectedFile))
    /\ UNCHANGED <<loadedModelFiles, animationEntries, animationEntryIdentifierGenerator,
                   bodyPartEntries, bodyPartIdentifierGenerator, userActions, net, shutdown>>
    /\ UNCHANGED <<sequenceVars, appSignals>>

\* Variant of loadFileNull: the counts are updated although the load failed, as
\* when manageLoadedModelFiles is called before load_file is awaited.
loadFileNullCounts(t) ==
    /\ ~shutdown
    /\ t \in Suspended("load_file")
    /\ tasks' = Resume(t)
    /\ loadedModelFiles' = manageLoadedModelFiles(loadedModelFiles, t.prev, t.path).map
    /\ last' = Last("loadFileNull", t.prev, t.path, loadedModelFiles, NoCmds)
    /\ UNCHANGED <<animationEntries, animationEntryIdentifierGenerator,
                   bodyPartEntries, bodyPartIdentifierGenerator, userActions, net, shutdown>>
    /\ UNCHANGED <<sequenceVars, appSignals>>

\* load_file resolves to null: loadModelFile returns null and the handler returns.
loadFileNull(t) ==
    /\ ~shutdown
    /\ t \in Suspended("load_file")
    /\ tasks' = Resume(t)
    /\ last' = Last("loadFileNull", t.prev, t.path, loadedModelFiles, NoCmds)
    /\ UNCHANGED <<loadedModelFiles, animationEntries, animationEntryIdentifierGenerator,
                   bodyPartEntries, bodyPartIdentifierGenerator, userActions, net, shutdown>>
    /\ UNCHANGED <<sequenceVars, appSignals>>

\* load_file resolves to the file's data: manageLoadedModelFiles runs.  When it
\* issues unload_file it suspends on that invoke; otherwise loadModelFile returns
\* and the handler sets the entry in the same turn of the event loop.
loadFileLoaded(t) ==
    /\ ~shutdown
    /\ t \in Suspended("load_file")
    /\ LET r == manageLoadedModelFiles(loadedModelFiles, t.prev, t.path)
       IN  /\ loadedModelFiles' = r.map
           /\ net' = NetAfterManage(net, loadedModelFiles, t.prev, t.path)
           /\ last' = Last("manageLoadedModelFiles", t.prev, t.path, r.mid, r.issued)
           /\ IF r.awaits
              THEN /\ tasks' = Resume(t) (+) SetToBag({[t EXCEPT !.pc = "unload_file"]})
                   /\ UNCHANGED <<animationEntries, bodyPartEntries>>
              ELSE /\ tasks' = Resume(t)
                   /\ animationEntries' = AnimationsAfterLoad(t)
                   /\ bodyPartEntries' = BodyPartsAfterLoad(t)
    /\ UNCHANGED <<animationEntryIdentifierGenerator, bodyPartIdentifierGenerator,
                   userActions, shutdown>>
    /\ UNCHANGED <<sequenceVars, appSignals>>

\* The awaited unload_file resolves: manageLoadedModelFiles and loadModelFile
\* return and the handler sets the entry.
unloadFileReturned(t) ==
    /\ ~shutdown
    /\ t \in Suspended("unload_file")
    /\ tasks' = Resume(t)
    /\ animationEntries' = AnimationsAfterLoad(t)
    /\ bodyPartEntries' = BodyPartsAfterLoad(t)
    /\ last' = Last("unloadFileReturned", t.prev, t.path, loadedModelFiles, NoCmds)
    /\ UNCHANGED <<loadedModelFiles, animationEntryIdentifierGenerator,
                   bodyPartIdentifierGenerator, userActions, net, shutdown>>
    /\ UNCHANGED <<sequenceVars, appSignals>>

\* The awaited unload_file rejects: the await in manageLoadedModelFiles throws,
\* the rejection passes through the await in loadModelFile and through the one
\* in the onClick handler, which ends there: none of its setters runs.
unloadFileRejected(t) ==
    /\ ~shutdown
    /\ t \in Suspended("unload_file")
    /\ tasks' = Resume(t)
    /\ last' = Last("unloadFileRejected", t.prev, t.path, loadedModelFiles, NoCmds)
    /\ UNCHANGED <<loadedModelFiles, animationEntries, animationEntryIdentifierGenerator,
                   bodyPartEntries, bodyPartIdentifierGenerator, userActions, net, shutdown>>
    /\ UNCHANGED <<sequenceVars, appSignals>>

(***************************************************************************)
(* Synchronous field setters of the entries.  Each is one                  *)
(* setStore(predicate, 'data', field, value) on the entry's own store.     *)
(***************************************************************************)
Edited(op) == Last(op, NoPath, NoPath, loadedModelFiles, NoCmds)

changeAnimationName(id, name) ==
    /\ ~shutdown
    /\ userActions < MaxUserActions
    /\ HasIdentifier(animationEntries, id)
    /\ userActions' = userActions + 1
    /\ animationEntries' = Patch(animationEntries, id, [name |-> name])
    /\ last' = Edited("changeAnimationName")
    /\ UNCHANGED <<loadedModelFiles, animationEntryIdentifierGenerator, bodyPartEntries,
                   bodyPartIdentifierGenerator, tasks, net, shutdown>>
    /\ UNCHANGED <<sequenceVars, appSignals>>

\* The Animation select, rendered while availableAnimations() is not empty.  Its
\* onChange passes the chosen option to changeAnimationFileSource.
AnimationSourceAnimation(id, option) ==
    /\ ~shutdown
    /\ userActions < MaxUserActions
    /\ HasIdentifier(animationEntries, id)
    /\ Len(EntryOf(animationEntries, id).availableAnimations) > 0
    /\ option \in DOMAIN EntryOf(animationEntries, id).availableAnimations
    /\ userActions' = userActions + 1
    /\ animationEntries' =
           Patch(animationEntries, id,
                 [file_source |-> EntryOf(animationEntries, id).availableAnimations[option]])
    /\ last' = Edited("AnimationSourceAnimation")
    /\ UNCHANGED <<loadedModelFiles, animationEntryIdentifierGenerator, bodyPartEntries,
                   bodyPartIdentifierGenerator, tasks, net, shutdown>>
    /\ UNCHANGED <<sequenceVars, appSignals>>

changeBodyPartName(b, name) ==
    /\ ~shutdown
    /\ userActions < MaxUserActions
    /\ HasIdentifier(bodyPartEntries, b)
    /\ userActions' = userActions + 1
    /\ bodyPartEntries' = Patch(bodyPartEntries, b, [name |-> name])
    /\ last' = Edited("changeBodyPartName")
    /\ UNCHANGED <<loadedModelFiles, animationEntries, animationEntryIdentifierGenerator,
                   bodyPartIdentifierGenerator, tasks, net, shutdown>>
    /\ UNCHANGED <<sequenceVars, appSignals>>

\* A setter of BodyPartModelEntry: it writes the local store of the body part.
SetBodyPartModel(b, m, fields) ==
    Patch(bodyPartEntries, b,
          [models |-> Patch(EntryOf(bodyPartEntries, b).models, m, fields)])

\* The model m of body part b is rendered.
ModelShown(b, m) ==
    /\ HasIdentifier(bodyPartEntries, b)
    /\ HasIdentifier(EntryOf(bodyPartEntries, b).models, m)

ModelOf(b, m) == EntryOf(EntryOf(bodyPartEntries, b).models, m)

changeBodyPartModelName(b, m, name) ==
    /\ ~shutdown
    /\ userActions < MaxUserActions
    /\ ModelShown(b, m)
    /\ ~ModelOf(b, m).blank                            \* <Show when={!isBlank()}>
    /\ userActions' = userActions + 1
    /\ bodyPartEntries' = SetBodyPartModel(b, m, [name |-> name])
    /\ last' = Edited("changeBodyPartModelName")
    /\ UNCHANGED <<loadedModelFiles, animationEntries, animationEntryIdentifierGenerator,
                   bodyPartIdentifierGenerator, tasks, net, shutdown>>
    /\ UNCHANGED <<sequenceVars, appSignals>>

\* The Blank checkbox: changeBodyPartModelBlank(!isBlank()).  The part
\* checkboxes live inside <Show when={!isBlank()}>: they are created anew, from
\* what availableParts() holds then, when Blank is unticked.  The array handed to
\* setAvailableParts is the one stored as part_names, which the store setter of
\* changeBodyPartModelPart writes in place (as addBodyPartModel's array, see
\* DataModels), so the new checkboxes are given the slots as they are, names
\* and nulls.  availableParts is what the rendered checkboxes hold.
changeBodyPartModelBlank(b, m) ==
    /\ ~shutdown
    /\ userActions < MaxUserActions
    /\ ModelShown(b, m)
    /\ userActions' = userActions + 1
    /\ bodyPartEntries' =
           IF ModelOf(b, m).blank
           THEN SetBodyPartModel(b, m, [blank |-> FALSE,
                                        availableParts |-> ModelOf(b, m).part_names])
           ELSE SetBodyPartModel(b, m, [blank |-> TRUE])
    /\ last' = Edited("changeBodyPartModelBlank")
    /\ UNCHANGED <<loadedModelFiles, animationEntries, animationEntryIdentifierGenerator,
                   bodyPartIdentifierGenerator, tasks, net, shutdown>>
    /\ UNCHANGED <<sequenceVars, appSignals>>

\* The checkbox of part partIndex: it shows checked unless the slot is null, and
\* its onChange stores the part's name when it becomes checked, null otherwise.
changeBodyPartModelPart(b, m, partIndex) ==
    /\ ~shutdown
    /\ userActions < MaxUserActions
    /\ ModelShown(b, m)
    /\ ~ModelOf(b, m).blank                            \* <Show when={!isBlank()}>
    /\ partIndex \in DOMAIN ModelOf(b, m).availableParts
    /\ userActions' = userActions + 1
    /\ LET model == ModelOf(b, m)
           value == IF model.part_names[partIndex] = null
                    THEN model.availableParts[partIndex] ELSE null
       IN  bodyPartEntries' =
               SetBodyPartModel(b, m, [part_names |->
                   [model.part_names EXCEPT ![partIndex] = value]])
    /\ last' = Edited("changeBodyPartModelPart")
    /\ UNCHANGED <<loadedModelFiles, animationEntries, animationEntryIdentifierGenerator,
                   bodyPartIdentifierGenerator, tasks, net, shutdown>>
    /\ UNCHANGED <<sequenceVars, appSignals>>

(***************************************************************************)
(* SequenceMenu / SequenceEntry.  Each entry has its grid signal; the      *)
(* handlers that change the grid copy it into data.animations.             *)
(***************************************************************************)
createNewSequence ==
    [identifier |-> animationEntrySequenceGenerator,
     name |-> "New Sequence",
     animations |-> <<>>,
     grid |-> << <<"">> >>]                 \* createSignal([['']])

SequenceFrame ==
    UNCHANGED <<loadedModelFiles, animationEntries, animationEntryIdentifierGenerator,
                bodyPartEntries, bodyPartIdentifierGenerator, tasks, net, shutdown,
                appSignals>>

addSequence ==
    /\ ~shutdown
    /\ userActions < MaxUserActions
    /\ userActions' = userActions + 1
    /\ sequenceEntries' = Append(sequenceEntries, createNewSequence)
    /\ animationEntrySequenceGenerator' = animationEntrySequenceGenerator + 1
    /\ last' = Edited("addSequence")
    /\ SequenceFrame

removeSequence(id) ==
    /\ ~shutdown
    /\ HasIdentifier(sequenceEntries, id)
    /\ sequenceEntries' = FilterOut(sequenceEntries, id)
    /\ last' = Edited("removeSequence")
    /\ UNCHANGED <<animationEntrySequenceGenerator, userActions>>
    /\ SequenceFrame

changeSequenceName(id, name) ==
    /\ ~shutdown
    /\ userActions < MaxUserActions
    /\ HasIdentifier(sequenceEntries, id)
    /\ userActions' = userActions + 1
    /\ sequenceEntries' = Patch(sequenceEntries, id, [name |-> name])
    /\ last' = Edited("changeSequenceName")
    /\ UNCHANGED animationEntrySequenceGenerator
    /\ SequenceFrame

\* setGrid(newGrid) followed by setSequenceEntries(..., 'data', 'animations', grid()).
SetGrid(id, newGrid, op) ==
    /\ ~shutdown
    /\ userActions < MaxUserActions
    /\ userActions' = userActions + 1
    /\ sequenceEntries' = Patch(sequenceEntries, id, [grid |-> newGrid, animations |-> newGrid])
    /\ last' = Edited(op)
    /\ UNCHANGED animationEntrySequenceGenerator
    /\ SequenceFrame

\* A grid handler whose condition fails: neither setGrid nor the store setter runs.
KeepGrid(op) ==
    /\ ~shutdown
    /\ userActions < MaxUserActions
    /\ userActions' = userActions + 1
    /\ last' = Edited(op)
    /\ UNCHANGED sequenceVars
    /\ SequenceFrame

GridOf(id) == EntryOf(sequenceEntries, id).grid

\* new Array(n).fill('')
EmptyRow(n) == [c \in 1..n |-> ""]

\* array.slice(0, -1)
DropLast(array) == SubSeq(array, 1, Len(array) - 1)

addRow(id) ==
    /\ HasIdentifier(sequenceEntries, id)
    /\ SetGrid(id, Append(GridOf(id), EmptyRow(Len(GridOf(id)[1]))), "addRow")

\* Variant of removeRow: the last row is dropped whatever the number of rows.
removeRowUnguarded(id) ==
    /\ HasIdentifier(sequenceEntries, id)
    /\ SetGrid(id, DropLast(GridOf(id)), "removeRow")

removeRow(id) ==
    /\ HasIdentifier(sequenceEntries, id)
    /\ IF Len(GridOf(id)) > 1
       THEN SetGrid(id, DropLast(GridOf(id)), "removeRow")
       ELSE KeepGrid("removeRow")

addColumn(id) ==
    /\ HasIdentifier(sequenceEntries, id)
    /\ SetGrid(id, [r \in DOMAIN GridOf(id) |-> Append(GridOf(id)[r], "")], "addColumn")

removeColumn(id) ==
    /\ HasIdentifier(sequenceEntries, id)
    /\ IF Len(GridOf(id)[1]) > 1
       THEN SetGrid(id, [r \in DOMAIN GridOf(id) |-> DropLast(GridOf(id)[r])], "removeColumn")
       ELSE KeepGrid("removeColumn")

updateGridValue(id, rowIndex, columnIndex, newValue) ==
    /\ HasIdentifier(sequenceEntries, id)
    /\ rowIndex \in DOMAIN GridOf(id)
    /\ columnIndex \in DOMAIN GridOf(id)[rowIndex]
    /\ SetGrid(id, [r \in DOMAIN GridOf(id) |->
                       [c \in DOMAIN GridOf(id)[r] |->
                           IF r = rowIndex /\ c = columnIndex
                           THEN newValue ELSE GridOf(id)[r][c]]],
               "updateGridValue")

(***************************************************************************)
(* App: the Export Path button, the Model Name field and compileModel.     *)
(***************************************************************************)
AppFrame ==
    UNCHANGED <<loadedModelFiles, animationEntries, animationEntryIdentifierGenerator,
                bodyPartEntries, bodyPartIdentifierGenerator, net, shutdown, sequenceVars>>

\* The Export Path handler suspends on its directory dialog.
clickExportPath ==
    /\ ~shutdown
    /\ userActions < MaxUserActions
    /\ userActions' = userActions + 1
    /\ tasks' = Suspend(Task("export", <<>>, NoPath, "openDirectory", NoPath))
    /\ last' = Edited("clickExportPath")
    /\ UNCHANGED appSignals
    /\ AppFrame

\* The dialog resolves to null: setModelExportPath('').
exportPathNull(t) ==
    /\ ~shutdown
    /\ t \in Suspended("openDirectory")
    /\ tasks' = Resume(t)
    /\ modelExportPath' = ""
    /\ last' = Edited("exportPathNull")
    /\ UNCHANGED <<modelName, userActions>>
    /\ AppFrame

exportPathSelected(t, selectedFile) ==
    /\ ~shutdown
    /\ t \in Suspended("openDirectory")
    /\ tasks' = Resume(t)
    /\ modelExportPath' = selectedFile
    /\ last' = Edited("exportPathSelected")
    /\ UNCHANGED <<modelName, userActions>>
    /\ AppFrame

\* The Model Name field is rendered while modelExportPath() is truthy.
setModelName(name) ==
    /\ ~shutdown
    /\ userActions < MaxUserActions
    /\ modelExportPath # ""
    /\ userActions' = userActions + 1
    /\ modelName' = name
    /\ last' = Edited("setModelName")
    /\ UNCHANGED <<modelExportPath, tasks>>
    /\ AppFrame

\* Variant of Flat: the rows are concatenated last row first.
RECURSIVE FlatRowsReversed(_)
FlatRowsReversed(rows) ==
    IF rows = <<>> THEN <<>> ELSE FlatRowsReversed(Tail(rows)) \o Head(rows)

\* array.flat(1) of an array of arrays.
RECURSIVE Flat(_)
Flat(rows) == IF rows = <<>> THEN <<>> ELSE Head(rows) \o Flat(Tail(rows))

\* Variant of ExportedModel: the null slots of part_names are dropped.
ExportedModelDropsNulls(model) ==
    [name |-> model.name,
     is_blank |-> model.blank,
     file_source |-> model.file_source,
     part_names |-> SelectSeq(model.part_names, LAMBDA partName : partName # null)]

\* The callbacks compileModel maps over the stores.
ExportedModel(model) ==
    [name |-> model.name,
     is_blank |-> model.blank,
     file_source |-> model.file_source,
     part_names |-> model.part_names]

ExportedBodyPart(bodyPart) ==
    [name |-> bodyPart.name,
     models |-> [j \in DOMAIN DataModels(bodyPart) |->
                    ExportedModel(DataModels(bodyPart)[j])]]

ExportedAnimation(animation) ==
    [name |-> animation.name,
     file_source |-> animation.file_source,
     animation_name |-> animation.source_animation]

ExportedSequence(sequence) ==
    [name |-> sequence.name,
     animations |-> Flat(sequence.animations)]

\* Variant of ImputedCompilationData: each collection is keyed by name, so of the
\* entities that share a name only the last one is exported.
LastPerName(entries) ==
    LET kept == {i \in DOMAIN entries :
                    \A j \in DOMAIN entries : entries[j].name = entries[i].name => j <= i}
        RECURSIVE Pick(_)
        Pick(i) == IF i > Len(entries) THEN <<>>
                   ELSE (IF i \in kept THEN <<entries[i]>> ELSE <<>>) \o Pick(i + 1)
    IN  Pick(1)

ImputedCompilationDataByName ==
    [model_name |-> modelName,
     export_path |-> modelExportPath,
     body_parts |-> [i \in DOMAIN LastPerName(bodyPartEntries) |->
                        ExportedBodyPart(LastPerName(bodyPartEntries)[i])],
     animations |-> [i \in DOMAIN LastPerName(animationEntries) |->
                        ExportedAnimation(LastPerName(animationEntries)[i])],
     sequences |-> [i \in DOMAIN LastPerName(sequenceEntries) |->
                       ExportedSequence(LastPerName(sequenceEntries)[i])]]

\* The data object compileModel builds.
ImputedCompilationData ==
    [model_name |-> modelName,
     export_path |-> modelExportPath,
     body_parts |-> [i \in DOMAIN bodyPartEntries |-> ExportedBodyPart(bodyPartEntries[i])],
     animations |-> [i \in DOMAIN animationEntries |-> ExportedAnimation(animationEntries[i])],
     sequences |-> [i \in DOMAIN sequenceEntries |-> ExportedSequence(sequenceEntries[i])]]

\* Variant of compileModel: the files are unloaded once the request is sent.
compileModelUnloads ==
    /\ ~shutdown
    /\ loadedModelFiles' = EmptyMap
    /\ last' = [Last("compileModel", NoPath, NoPath, loadedModelFiles,
                     OneCmd("compile_model", NoPath)
                     (+) SetToBag({Cmd("unload_file", p) : p \in DOMAIN loadedModelFiles}))
                EXCEPT !.data = <<ImputedCompilationData>>]
    /\ UNCHANGED <<tasks, userActions, appSignals>>
    /\ UNCHANGED <<animationEntries, animationEntryIdentifierGenerator,
                   bodyPartEntries, bodyPartIdentifierGenerator, net, shutdown, sequenceVars>>

\* compileModel has no await: it builds the data and issues compile_model.
compileModel ==
    /\ ~shutdown
    /\ last' = [Last("compileModel", NoPath, NoPath, loadedModelFiles,
                     OneCmd("compile_model", NoPath))
                EXCEPT !.data = <<ImputedCompilationData>>]
    /\ UNCHANGED <<tasks, userActions, appSignals>>
    /\ AppFrame

(***************************************************************************)
(* The beforeunload listener, run to completion.  The document is being    *)
(* unloaded: no other handler runs once it has started, so the awaits      *)
(* between its invokes admit no interleaving.                              *)
(***************************************************************************)
teardown ==
    /\ ~shutdown
    /\ LET r == beforeunload(loadedModelFiles)
       IN  /\ loadedModelFiles' = r.map
           /\ last' = Last("beforeunload", NoPath, NoPath, r.mid, r.issued)
    /\ shutdown' = TRUE
    /\ UNCHANGED <<animationEntries, animationEntryIdentifierGenerator, bodyPartEntries,
                   bodyPartIdentifierGenerator, tasks, userActions, net>>
    /\ UNCHANGED <<sequenceVars, appSignals>>

\* The entries that are rendered, by identifier.
Animations == Identifiers(animationEntries)

BodyParts == Identifiers(bodyPartEntries)

Models(b) == Identifiers(EntryOf(bodyPartEntries, b).models)

Sequences == Identifiers(sequenceEntries)

\* Identifiers a generator can have handed out.
Ids == 0..(MaxUserActions - 1)

\* The file handlers leave the backend's own record alone: it is kept by the
\* specifications that observe the commands (SpecBackend).
Unobserved == UNCHANGED backend

Next ==
    \/ addAnimation /\ Unobserved
    \/ \E id \in Animations : removeAnimation(id) /\ Unobserved
    \/ \E id \in Animations : clickAnimationFile(id) /\ Unobserved
    \/ addBodyPart /\ Unobserved
    \/ \E b \in BodyParts : removeBodyPart(b) /\ Unobserved
    \/ \E b \in BodyParts : addBodyPartModel(b) /\ Unobserved
    \/ \E b \in BodyParts : \E m \in Models(b) : removeBodyPartModel(b, m) /\ Unobserved
    \/ \E b \in BodyParts : \E m \in Models(b) : clickModelFile(b, m) /\ Unobserved
    \/ \E t \in BagToSet(tasks) : openNull(t) /\ Unobserved
    \/ \E t \in BagToSet(tasks), p \in Paths : openSelected(t, p) /\ Unobserved
    \/ \E t \in BagToSet(tasks) : loadFileNull(t) /\ Unobserved
    \/ \E t \in BagToSet(tasks) : loadFileLoaded(t) /\ Unobserved
    \/ \E t \in BagToSet(tasks) : unloadFileReturned(t) /\ Unobserved
    \/ teardown /\ Unobserved

Spec == Init /\ [][Next]_vars

(***************************************************************************)
(* The editor as a whole: the handlers above together with the field       *)
(* setters, the sequence grid, App's signals and compileModel.             *)
(***************************************************************************)
\* The positions of the part checkboxes and of the grid cells the user can reach.
PartIndexes == DOMAIN FileParts(NoPath)

AnimationOptions == DOMAIN FileAnimations(NoPath)

GridIndexes == 1..2

\* Two files are enough to tell one entry's data from another's.
EditorPaths == {"a.smd", "b.smd"}

\* The editor while its window is open, with one dialog at a time, the way a
\* modal dialog is used.
NextEditor ==
    \/ addAnimation /\ Unobserved
    \/ \E id \in Animations : removeAnimation(id) /\ Unobserved
    \/ \E id \in Animations : tasks = EmptyBag /\ clickAnimationFile(id) /\ Unobserved
    \/ addBodyPart /\ Unobserved
    \/ \E b \in BodyParts : removeBodyPart(b) /\ Unobserved
    \/ \E b \in BodyParts : addBodyPartModel(b) /\ Unobserved
    \/ \E b \in BodyParts : \E m \in Models(b) : removeBodyPartModel(b, m) /\ Unobserved
    \/ \E b \in BodyParts : \E m \in Models(b) : tasks = EmptyBag /\ clickModelFile(b, m) /\ Unobserved
    \/ \E t \in BagToSet(tasks) : openNull(t) /\ Unobserved
    \/ \E t \in BagToSet(tasks), p \in EditorPaths : openSelected(t, p) /\ Unobserved
    \/ \E t \in BagToSet(tasks) : loadFileNull(t) /\ Unobserved
    \/ \E t \in BagToSet(tasks) : loadFileLoaded(t) /\ Unobserved
    \/ \E t \in BagToSet(tasks) : unloadFileReturned(t) /\ Unobserved
    \/ \E id \in Animations, name \in TypedNames : changeAnimationName(id, name) /\ Unobserved
    \/ \E id \in Animations, option \in AnimationOptions : AnimationSourceAnimation(id, option) /\ Unobserved
    \/ \E b \in BodyParts, name \in TypedNames : changeBodyPartName(b, name) /\ Unobserved
    \/ \E b \in BodyParts : \E m \in Models(b), name \in TypedNames : changeBodyPartModelName(b, m, name) /\ Unobserved
    \/ \E b \in BodyParts : \E m \in Models(b) : changeBodyPartModelBlank(b, m) /\ Unobserved
    \/ \E b \in BodyParts : \E m \in Models(b), partIndex \in PartIndexes : changeBodyPartModelPart(b, m, partIndex) /\ Unobserved
    \/ addSequence /\ Unobserved
    \/ \E id \in Sequences : removeSequence(id) /\ Unobserved
    \/ \E id \in Sequences, name \in TypedNames : changeSequenceName(id, name) /\ Unobserved
    \/ \E id \in Sequences : addRow(id) /\ Unobserved
    \/ \E id \in Sequences : removeRow(id) /\ Unobserved
    \/ \E id \in Sequences : addColumn(id) /\ Unobserved
    \/ \E id \in Sequences : removeColumn(id) /\ Unobserved
    \/ \E id \in Sequences, rowIndex \in GridIndexes, columnIndex \in GridIndexes, newValue \in TypedNames :
           updateGridValue(id, rowIndex, columnIndex, newValue) /\ Unobserved
    \/ tasks = EmptyBag /\ clickExportPath /\ Unobserved
    \/ \E t \in BagToSet(tasks) : exportPathNull(t) /\ Unobserved
    \/ \E t \in BagToSet(tasks), selectedFile \in ExportDirectories : exportPathSelected(t, selectedFile) /\ Unobserved
    \/ \E name \in TypedNames : setModelName(name) /\ Unobserved
    \/ compileModel /\ Unobserved

SpecEditor == Init /\ [][NextEditor]_vars

(***************************************************************************)
(*                              Properties                                 *)
(***************************************************************************)
CountOf(m, p) == MapGetOr(m, p, 0)

IssuedInAll(bag) == BagCardinality(bag)

\* The last segment released path p from a map that held it: unloadModelFile(p)
\* (called by removeAnimation), or the release half of manageLoadedModelFiles.
ReleasedPresent(p) ==
    \/ /\ last.op = "removeAnimation"
       /\ last.path = p /\ p # NoPath /\ MapHas(last.before, p)
    \/ /\ last.op = "manageLoadedModelFiles"
       /\ last.prev = p /\ last.prev # last.path /\ MapHas(last.before, p)

\* The last segment was unloadModelFile(p) for a path p the map did not hold.
ReleasedAbsent(p) ==
    /\ last.op = "removeAnimation"
    /\ last.path = p /\ p # NoPath /\ ~MapHas(last.before, p)

\* The last segment was manageLoadedModelFiles(previousPath, path) with two
\* different arguments.
Replaced == last.op = "manageLoadedModelFiles" /\ last.prev # last.path

\* C1: every path stored in the map has a count >= 1; a path whose count
\* reaches zero is not kept in the map.
C1_CountsPositive ==
    \A p \in DOMAIN loadedModelFiles : loadedModelFiles[p] >= 1

\* C1 witness: a release took the last reference of a path and the path is gone.
C1_Witness ==
    \E p \in Paths : /\ ReleasedPresent(p)
                     /\ last.before[p] = 1
                     /\ ~MapHas(loadedModelFiles, p)

\* C2 as stated: the count of a path equals acquires minus releases, and the
\* path is in the map iff that difference is positive.
C2_NetOfAllCalls ==
    ~shutdown =>
        \A p \in Paths : /\ CountOf(loadedModelFiles, p) = net[p].all
                         /\ MapHas(loadedModelFiles, p) <=> net[p].all > 0

\* C2 amended: the count of a path equals acquires minus the releases that
\* found the path in the map, and the path is in the map iff that is positive.
C2_NetOfEffectiveCalls ==
    ~shutdown =>
        \A p \in Paths : /\ CountOf(loadedModelFiles, p) = net[p].found
                         /\ MapHas(loadedModelFiles, p) <=> net[p].found > 0

\* C2 witness: a path that was released while absent is back in the map.
C2_Witness ==
    /\ ~shutdown
    /\ \E p \in Paths : net[p].all < net[p].found /\ MapHas(loadedModelFiles, p)

\* The live entries whose selected file is p.
LiveModels ==
    UNION {{<<i, j>> : j \in DOMAIN bodyPartEntries[i].models} : i \in DOMAIN bodyPartEntries}

Holders(p) ==
    Cardinality({i \in DOMAIN animationEntries : animationEntries[i].selectedFile = p})
    + Cardinality({x \in LiveModels : bodyPartEntries[x[1]].models[x[2]].selectedFile = p})

\* C3: with no file selection in flight, the count of every path equals the
\* number of live entries that have it selected, and the path is absent exactly
\* when no live entry has it selected.
C3_NoLeak ==
    (tasks = EmptyBag /\ ~shutdown) =>
        \A p \in Paths : /\ CountOf(loadedModelFiles, p) = Holders(p)
                         /\ ~MapHas(loadedModelFiles, p) <=> Holders(p) = 0

\* C4: a release of a path the map holds lowers its count by exactly one; the
\* entry is removed and exactly one unload_file for it is issued when the count
\* reaches zero, and nothing is issued while the count stays positive.
C4_ReleaseDecrementsByOne ==
    \A p \in Paths :
        ReleasedPresent(p) =>
            IF last.before[p] - 1 = 0
            THEN /\ ~MapHas(loadedModelFiles, p)
                 /\ Issued(last.issued, "unload_file", p) = 1
                 /\ IssuedInAll(last.issued) = 1
            ELSE /\ MapHas(loadedModelFiles, p)
                 /\ loadedModelFiles[p] = last.before[p] - 1
                 /\ IssuedInAll(last.issued) = 0

\* C4 witness: unloadModelFile released one of two references; the path stays.
C4_Witness ==
    \E p \in Paths : /\ ReleasedPresent(p)
                     /\ last.op = "removeAnimation"
                     /\ last.before[p] = 2
                     /\ MapHas(loadedModelFiles, p)

\* C5: in manageLoadedModelFiles(previousPath, path) with different paths, the
\* count of path is incremented before previousPath is decremented (after the
\* first mutation path is up by one and previousPath is untouched), the counts
\* of all other paths are unchanged, and a path that was not in the map is
\* inserted with count 1.
C5_AcquireBeforeRelease ==
    Replaced =>
        /\ last.mid = MapSet(last.before, last.path, CountOf(last.before, last.path) + 1)
        /\ MapHas(loadedModelFiles, last.path)
        /\ loadedModelFiles[last.path] = CountOf(last.before, last.path) + 1
        /\ ~MapHas(last.before, last.path) => loadedModelFiles[last.path] = 1
        /\ CountOf(loadedModelFiles, last.prev) = CountOf(last.mid, last.prev)
                                                  - (IF MapHas(last.mid, last.prev) THEN 1 ELSE 0)
        /\ \A q \in Paths \ {last.prev, last.path} :
               /\ MapHas(loadedModelFiles, q) <=> MapHas(last.before, q)
               /\ CountOf(loadedModelFiles, q) = CountOf(last.before, q)

\* C5 witness: a re-pick moved an entry's only reference to a path that was
\* not in the map, while the map held a third path.
C5_Witness ==
    /\ Replaced
    /\ MapHas(last.before, last.prev)
    /\ ~MapHas(last.before, last.path)
    /\ ~MapHas(loadedModelFiles, last.prev)
    /\ \E q \in Paths \ {last.prev, last.path} : MapHas(loadedModelFiles, q)

\* C6: manageLoadedModelFiles(p, p) leaves the map as it was and issues no
\* unload_file.
C6_ReplaceSameIsNoOp ==
    (last.op = "manageLoadedModelFiles" /\ last.prev = last.path) =>
        /\ loadedModelFiles = last.before
        /\ IssuedInAll(last.issued) = 0

\* C6 witness: an entry re-picked the file it already has, its only reference.
C6_Witness ==
    /\ last.op = "manageLoadedModelFiles"
    /\ last.prev = last.path
    /\ MapHas(loadedModelFiles, last.path)
    /\ loadedModelFiles[last.path] = 1

\* C7 as stated: load_file is invoked for a path only while the path is absent
\* from the map.
C7_LoadOnlyWhenAbsent ==
    \A p \in Paths :
        Issued(last.issued, "load_file", p) > 0 => ~MapHas(last.before, p)

\* C7 amended: every selection of a file invokes load_file exactly once,
\* whether or not the map holds the path; acquiring a path the map holds, for
\* an entry whose previous path is another one, raises its count by one.
C7_LoadOnEverySelection ==
    /\ last.op = "openSelected" =>
           /\ Issued(last.issued, "load_file", last.path) = 1
           /\ IssuedInAll(last.issued) = 1
    /\ (Replaced /\ MapHas(last.before, last.path)) =>
           /\ MapHas(loadedModelFiles, last.path)
           /\ loadedModelFiles[last.path] = last.before[last.path] + 1

\* C7 witness: a file the map already holds was selected.
C7_Witness ==
    /\ last.op = "openSelected"
    /\ MapHas(loadedModelFiles, last.path)

\* C8 as stated: unloadModelFile on a path the map does not hold changes
\* nothing and issues no unload_file.
C8_ReleaseAbsentIsSilent ==
    \A p \in Paths :
        ReleasedAbsent(p) =>
            /\ loadedModelFiles = last.before
            /\ IssuedInAll(last.issued) = 0

\* C8 amended: unloadModelFile on a path the map does not hold leaves the map
\* unchanged and issues exactly one unload_file, for that path.
C8_ReleaseAbsentUnloads ==
    \A p \in Paths :
        ReleasedAbsent(p) =>
            /\ loadedModelFiles = last.before
            /\ Issued(last.issued, "unload_file", p) = 1
            /\ IssuedInAll(last.issued) = 1

\* C8 witness: an animation was removed whose selected file the map no longer held.
C8_Witness ==
    \E p \in Paths : ReleasedAbsent(p)

C10_CancelChangesNothing ==
    [][last'.op = "openNull" =>
          /\ loadedModelFiles' = loadedModelFiles
          /\ IssuedInAll(last'.issued) = 0
          /\ animationEntries' = animationEntries
          /\ bodyPartEntries' = bodyPartEntries]_vars

\* C10 witness: the dialog was cancelled for an entry that has a file selected.
C10_Witness ==
    /\ last.op = "openNull"
    /\ last.prev # NoPath
    /\ \E i \in DOMAIN animationEntries : animationEntries[i].file_source = last.prev

\* C11: when load_file yields null for the selected file, the map is unchanged
\* (the new path is not counted, the previous path is not released, nothing is
\* unloaded) and every entry keeps its file_source and its other fields.
C11_FailedLoadKeepsSelection ==
    [][last'.op = "loadFileNull" =>
          /\ loadedModelFiles' = loadedModelFiles
          /\ net' = net
          /\ IssuedInAll(last'.issued) = 0
          /\ animationEntries' = animationEntries
          /\ bodyPartEntries' = bodyPartEntries]_vars

\* C11 witness: the load failed for an entry that has another file selected,
\* its only reference, and the failed path is not in the map.
C11_Witness ==
    /\ last.op = "loadFileNull"
    /\ last.prev # NoPath
    /\ last.path # last.prev
    /\ MapHas(loadedModelFiles, last.prev)
    /\ loadedModelFiles[last.prev] = 1
    /\ ~MapHas(loadedModelFiles, last.path)
    /\ Holders(last.prev) = 1

\* C12: removing a model that has a file selected releases that file exactly
\* once: its count drops by one, the path is unloaded exactly when the count
\* reaches zero, and no other path is touched.
C12_RemoveModelReleasesOnce ==
    (/\ last.op = "removeBodyPartModel"
     /\ last.path # NoPath
     /\ MapHas(last.before, last.path)) =>
        /\ CountOf(loadedModelFiles, last.path) = last.before[last.path] - 1
        /\ Issued(last.issued, "unload_file", last.path)
               = (IF last.before[last.path] = 1 THEN 1 ELSE 0)
        /\ \A q \in Paths \ {last.path} :
               CountOf(loadedModelFiles, q) = CountOf(last.before, q)

\* The file selection t completes in this step: its handler runs its setters.
Completes(t) ==
    /\ t.pc \in {"load_file", "unload_file"}
    /\ tasks' = Resume(t)
    /\ last'.op \in {"manageLoadedModelFiles", "unloadFileReturned"}

\* The entry that started the file selection t is still in its collection.
OwnerLive(t) ==
    IF t.kind = "animation"
    THEN HasIdentifier(animationEntries, t.owner[1])
    ELSE ModelShown(t.owner[1], t.owner[2])

\* An update of an identifier the collection does not hold leaves it as it is.
StaleUpdateIsNoOp(entries, id, fields) ==
    ~HasIdentifier(entries, id) => Patch(entries, id, fields) = entries

\* C13: in each collection (body parts, models, animations, sequences) an
\* update that targets an identifier no longer present changes neither the
\* contents nor the order of the collection; in particular the setters of a file
\* selection that completes after its entry was removed change no collection.
C13_StaleUpdateIsNoOp ==
    [][/\ \A t \in BagToSet(tasks) :
              (Completes(t) /\ t.kind # "export" /\ ~OwnerLive(t)) =>
                  /\ animationEntries' = animationEntries
                  /\ bodyPartEntries' = bodyPartEntries
                  /\ sequenceEntries' = sequenceEntries
       /\ \A id \in Ids, name \in TypedNames :
              /\ StaleUpdateIsNoOp(animationEntries', id, [name |-> name, file_source |-> "a.smd"])
              /\ StaleUpdateIsNoOp(bodyPartEntries', id, [name |-> name])
              /\ StaleUpdateIsNoOp(sequenceEntries', id, [name |-> name, animations |-> << <<name>> >>])
              /\ \A i \in DOMAIN bodyPartEntries' :
                     StaleUpdateIsNoOp(bodyPartEntries'[i].models, id,
                                       [name |-> name, part_names |-> <<null>>])]_vars

\* C13 witness: a file selection completed when every animation and every model
\* had been removed, and a sequence has been removed as well.
C13_Witness ==
    /\ last.op \in {"manageLoadedModelFiles", "unloadFileReturned"}
    /\ tasks = EmptyBag
    /\ animationEntries = <<>>
    /\ LiveModels = {}
    /\ \E id \in Ids : id < animationEntrySequenceGenerator /\ ~HasIdentifier(sequenceEntries, id)

\* One step of a collection and its identifier generator: the identifiers
\* present are pairwise distinct, all of them were handed out by the generator,
\* the generator never goes back, and an identifier that was not present before
\* the step is at least the generator's value before the step, hence greater
\* than every identifier handed out earlier.
AllocatesFresh(entries, generator, entriesAfter, generatorAfter) ==
    /\ Cardinality(Identifiers(entriesAfter)) = Len(entriesAfter)
    /\ \A id \in Identifiers(entriesAfter) : id < generatorAfter
    /\ generatorAfter >= generator
    /\ \A id \in Identifiers(entriesAfter) \ Identifiers(entries) : id >= generator
    /\ \A id \in Identifiers(entries) : id < generator

\* C14: in every collection (animations, body parts, the models of each body
\* part, sequences) and for every sequence of adds and removes, the identifiers
\* present are pairwise distinct and a newly added entity gets an identifier
\* greater than every identifier allocated before in that collection, so no
\* identifier is reused after a removal.
C14_IdentifiersNeverReused ==
    [][/\ AllocatesFresh(animationEntries, animationEntryIdentifierGenerator,
                         animationEntries', animationEntryIdentifierGenerator')
       /\ AllocatesFresh(bodyPartEntries, bodyPartIdentifierGenerator,
                         bodyPartEntries', bodyPartIdentifierGenerator')
       /\ AllocatesFresh(sequenceEntries, animationEntrySequenceGenerator,
                         sequenceEntries', animationEntrySequenceGenerator')
       /\ \A b \in Identifiers(bodyPartEntries) \cap Identifiers(bodyPartEntries') :
              AllocatesFresh(EntryOf(bodyPartEntries, b).models,
                             EntryOf(bodyPartEntries, b).bodyPartModelIdentifierGenerator,
                             EntryOf(bodyPartEntries', b).models,
                             EntryOf(bodyPartEntries', b).bodyPartModelIdentifierGenerator)]_vars

\* C14 witness: an entity was added to a collection from which an earlier one
\* had been removed: the collection holds fewer entities than were allocated and
\* its newest identifier is the last one handed out.
C14_Witness ==
    /\ last.op = "addAnimation"
    /\ Len(animationEntries) = 2
    /\ animationEntryIdentifierGenerator = 3
    /\ 0 \notin Identifiers(animationEntries)
    /\ \E i \in DOMAIN bodyPartEntries :
           /\ bodyPartEntries[i].identifier = 1
           /\ ~HasIdentifier(bodyPartEntries, 0)

\* The last segment was compileModel; Request is the data it sent.
Compiled == last.op = "compileModel"

Request == last.data[1]

\* The models rendered in body part i, and the request's entry for model j of it.
ModelsOf(i) == bodyPartEntries[i].models

RequestModel(i, j) == Request.body_parts[i].models[j]

DropNulls(names) == SelectSeq(names, LAMBDA partName : partName # null)

\* C15 as stated: the part-name list in the request is the model's part_names
\* with the null slots dropped, in the original order, and holds no null.
C15_NullPartsDropped ==
    Compiled =>
        \A i \in DOMAIN bodyPartEntries : \A j \in DOMAIN ModelsOf(i) :
            /\ RequestModel(i, j).part_names = DropNulls(ModelsOf(i)[j].part_names)
            /\ \A k \in DOMAIN RequestModel(i, j).part_names :
                   RequestModel(i, j).part_names[k] # null

\* C15 amended: the part-name list in the request is the model's part_names as
\* stored: the same length and order, with null still in every unselected slot.
C15_PartNamesAsStored ==
    Compiled =>
        \A i \in DOMAIN bodyPartEntries : \A j \in DOMAIN ModelsOf(i) :
            /\ Len(RequestModel(i, j).part_names) = Len(ModelsOf(i)[j].part_names)
            /\ \A k \in DOMAIN ModelsOf(i)[j].part_names :
                   RequestModel(i, j).part_names[k] = ModelsOf(i)[j].part_names[k]

\* C15 witness: a model with one part unselected and one selected was compiled.
C15_Witness ==
    /\ Compiled
    /\ \E i \in DOMAIN bodyPartEntries : \E j \in DOMAIN ModelsOf(i) :
           /\ Len(ModelsOf(i)[j].part_names) = 2
           /\ ModelsOf(i)[j].part_names[1] = null
           /\ ModelsOf(i)[j].part_names[2] # null
           /\ RequestModel(i, j).part_names[1] = null

\* The stored grid of sequence i and the request's animations for it.
GridStored(i) == sequenceEntries[i].animations

RequestAnimations(i) == Request.sequences[i].animations

\* C16 as stated: the request keeps the grid as rows: its animations value has
\* one element per row of the stored grid.
C16_GridKeptAsRows ==
    Compiled =>
        \A i \in DOMAIN sequenceEntries : Len(RequestAnimations(i)) = Len(GridStored(i))

\* C16 amended: the request's animations value is the stored grid flattened in
\* row-major order: the cells of row 1 left to right, then those of row 2, and
\* so on, one string per cell, with no row boundaries.
C16_GridFlattenedRowMajor ==
    Compiled =>
        \A i \in DOMAIN sequenceEntries :
            IF Len(GridStored(i)) = 0
            THEN Len(RequestAnimations(i)) = 0
            ELSE LET columns == Len(GridStored(i)[1])
                 IN  /\ \A r \in DOMAIN GridStored(i) : Len(GridStored(i)[r]) = columns
                     /\ Len(RequestAnimations(i)) = Len(GridStored(i)) * columns
                     /\ \A r \in DOMAIN GridStored(i) : \A c \in 1..columns :
                            RequestAnimations(i)[(r - 1) * columns + c] = GridStored(i)[r][c]

\* C16 witness: a grid of two rows whose rows differ was compiled.
C16_Witness ==
    /\ Compiled
    /\ \E i \in DOMAIN sequenceEntries :
           /\ Len(GridStored(i)) = 2
           /\ GridStored(i)[1] # GridStored(i)[2]

\* The request holds one entry per name, and the entry of a name carries the
\* data of the last entity that has the name; each[i] is the export of entity i.
LastWriteWins(entries, exported, each) ==
    /\ \A i, j \in DOMAIN exported : exported[i].name = exported[j].name => i = j
    /\ \A i \in DOMAIN entries :
           (\A j \in DOMAIN entries : entries[j].name = entries[i].name => j <= i) =>
               \E k \in DOMAIN exported : exported[k] = each[i]

\* C17 as stated: when entities of a collection share a name, the request holds
\* a single entry for the name, with the data of the last of them.
C17_LastEntityPerName ==
    Compiled =>
        /\ LastWriteWins(animationEntries, Request.animations,
                         [i \in DOMAIN animationEntries |-> ExportedAnimation(animationEntries[i])])
        /\ LastWriteWins(bodyPartEntries, Request.body_parts,
                         [i \in DOMAIN bodyPartEntries |-> ExportedBodyPart(bodyPartEntries[i])])
        /\ LastWriteWins(sequenceEntries, Request.sequences,
                         [i \in DOMAIN sequenceEntries |-> ExportedSequence(sequenceEntries[i])])

\* C17 amended: the request holds one entry per entity, in collection order;
\* entities that share a name all appear, each with its own data.
C17_EveryEntityExported ==
    Compiled =>
        /\ Len(Request.animations) = Len(animationEntries)
        /\ \A i \in DOMAIN animationEntries :
               /\ Request.animations[i].name = animationEntries[i].name
               /\ Request.animations[i].file_source = animationEntries[i].file_source
               /\ Request.animations[i].animation_name = animationEntries[i].source_animation
        /\ Len(Request.body_parts) = Len(bodyPartEntries)
        /\ \A i \in DOMAIN bodyPartEntries :
               /\ Request.body_parts[i].name = bodyPartEntries[i].name
               /\ Len(Request.body_parts[i].models) = Len(ModelsOf(i))
               /\ \A j \in DOMAIN ModelsOf(i) :
                      /\ RequestModel(i, j).name = ModelsOf(i)[j].name
                      /\ RequestModel(i, j).file_source = ModelsOf(i)[j].file_source
        /\ Len(Request.sequences) = Len(sequenceEntries)
        /\ \A i \in DOMAIN sequenceEntries :
               Request.sequences[i].name = sequenceEntries[i].name

\* C17 witness: two animations with the same name and different files were
\* compiled.
C17_Witness ==
    /\ Compiled
    /\ \E i, j \in DOMAIN animationEntries :
           /\ i < j
           /\ animationEntries[i].name = animationEntries[j].name
           /\ animationEntries[i].file_source # animationEntries[j].file_source

\* C18: compileModel changes no store, no signal and not the map, invokes no
\* load_file and no unload_file, and issues exactly one compile_model.
C18_CompileHasNoSideEffect ==
    [][last'.op = "compileModel" =>
          /\ bodyPartEntries' = bodyPartEntries
          /\ animationEntries' = animationEntries
          /\ sequenceEntries' = sequenceEntries
          /\ UNCHANGED <<animationEntryIdentifierGenerator, bodyPartIdentifierGenerator,
                         animationEntrySequenceGenerator, modelName, modelExportPath>>
          /\ loadedModelFiles' = loadedModelFiles
          /\ tasks' = tasks
          /\ \A p \in Paths : /\ Issued(last'.issued, "load_file", p) = 0
                              /\ Issued(last'.issued, "unload_file", p) = 0
          /\ Issued(last'.issued, "compile_model", NoPath) = 1
          /\ IssuedInAll(last'.issued) = 1
          /\ Len(last'.data) = 1]_vars

\* C18 witness: a compile of an editor that holds a body part with a model, an
\* animation and a sequence, with a file in the map.
C18_Witness ==
    /\ Compiled
    /\ LiveModels # {}
    /\ animationEntries # <<>>
    /\ sequenceEntries # <<>>
    /\ loadedModelFiles # EmptyMap

\* C19: for every body part, data.models of the top-level store, which
\* compileModel reads, equals the body part's current collection of models,
\* after every add, remove and field update of a model.
C19_SnapshotFollowsModels ==
    \A i \in DOMAIN bodyPartEntries :
        DataModels(bodyPartEntries[i]) = bodyPartEntries[i].models

\* C19 witness: a model was removed from a body part that keeps another model,
\* which had a file loaded after it was added.
C19_Witness ==
    /\ last.op = "removeBodyPartModel"
    /\ \E i \in DOMAIN bodyPartEntries :
           /\ Len(bodyPartEntries[i].models) = 1
           /\ bodyPartEntries[i].models[1].file_source # NoPath
           /\ bodyPartEntries[i].bodyPartModelIdentifierGenerator = 2

\* The file selection t ran manageLoadedModelFiles in this step.
Resolves(t) ==
    /\ t.pc = "load_file"
    /\ last'.op = "manageLoadedModelFiles"
    /\ last'.prev = t.prev
    /\ last'.path = t.path
    /\ \/ tasks' = Resume(t)
       \/ tasks' = Resume(t) (+) SetToBag({[t EXCEPT !.pc = "unload_file"]})

\* C20: when the load of a file selection resolves after the entry that started
\* it was removed, the result is dropped: no collection changes and the map is
\* left as it was (the loaded path is not counted, no other path is decremented).
C20_StaleLoadIsDropped ==
    [][\A t \in BagToSet(tasks) :
           (Resolves(t) /\ ~OwnerLive(t)) =>
               /\ animationEntries' = animationEntries
               /\ bodyPartEntries' = bodyPartEntries
               /\ loadedModelFiles' = loadedModelFiles]_vars


(***************************************************************************)
(* The animation entries together with the backend's record of the         *)
(* commands it was sent: every load_file and unload_file a handler issues  *)
(* reaches the backend in the order of issue.                              *)
(***************************************************************************)
Observed == backend' = Notified(backend, last'.issued)

NextBackend ==
    \/ addAnimation /\ Observed
    \/ \E id \in Animations : removeAnimation(id) /\ Observed
    \/ \E id \in Animations : clickAnimationFile(id) /\ Observed
    \/ \E t \in BagToSet(tasks) : openNull(t) /\ Observed
    \/ \E t \in BagToSet(tasks), p \in Paths : openSelected(t, p) /\ Observed
    \/ \E t \in BagToSet(tasks) : loadFileNull(t) /\ Observed
    \/ \E t \in BagToSet(tasks) : loadFileLoaded(t) /\ Observed
    \/ \E t \in BagToSet(tasks) : unloadFileReturned(t) /\ Observed

SpecBackend == Init /\ [][NextBackend]_vars

\* C21: whenever a path is in the map with a positive count and no file
\* selection is in flight, the last command the backend was sent for that
\* path is load_file, never unload_file.
C21_CachedFileIsLoaded ==
    \A p \in Paths :
        (tasks = EmptyBag /\ MapHas(loadedModelFiles, p) /\ loadedModelFiles[p] > 0)
            => backend[p] = "load"


\* The file the entry that started the selection t shows as selected now.
OwnerFile(t) ==
    IF t.kind = "animation"
    THEN EntryOf(animationEntries, t.owner[1]).selectedFile
    ELSE ModelOf(t.owner[1], t.owner[2]).selectedFile

\* The selection t captured a previous path that its entry no longer shows:
\* another selection of the same entry, started before t resolved, completed.
Overtaken(t) ==
    /\ t.kind \in {"animation", "model"}
    /\ OwnerLive(t)
    /\ OwnerFile(t) # t.prev

\* C22: when an entry starts a second file selection before the first resolved,
\* both with the same previous path, then once both have resolved the previous
\* path has been released once only, the path of the selection that resolved
\* first is no longer counted for the entry, and the entry holds one reference on
\* the path it ends with: the second resolution releases the intermediate path,
\* leaves the previous path as it is and acquires its own path.
C22_OverlappingSelectionsOfOneEntry ==
    [][\A t \in BagToSet(tasks) :
           (Resolves(t) /\ Overtaken(t) /\ t.path \notin {t.prev, OwnerFile(t)}) =>
               /\ CountOf(loadedModelFiles', OwnerFile(t)) = CountOf(loadedModelFiles, OwnerFile(t)) - 1
               /\ CountOf(loadedModelFiles', t.prev) = CountOf(loadedModelFiles, t.prev)
               /\ CountOf(loadedModelFiles', t.path) = CountOf(loadedModelFiles, t.path) + 1]_vars


\* C23: no increment and no decrement is lost, whatever handlers ran at the
\* suspension points: each completed acquire raises the count of its path by
\* exactly one over the count the map held just before, each completed release
\* of a path the map holds lowers it by exactly one, and no other count moves.
C23_NoLostUpdate ==
    [][/\ (last'.op = "manageLoadedModelFiles" /\ last'.prev # last'.path) =>
              /\ CountOf(loadedModelFiles', last'.path) = CountOf(loadedModelFiles, last'.path) + 1
              /\ MapHas(loadedModelFiles, last'.prev) =>
                     CountOf(loadedModelFiles', last'.prev) = CountOf(loadedModelFiles, last'.prev) - 1
              /\ \A p \in Paths \ {last'.path, last'.prev} :
                     CountOf(loadedModelFiles', p) = CountOf(loadedModelFiles, p)
       /\ (last'.op = "removeAnimation" /\ MapHas(loadedModelFiles, last'.path)) =>
              /\ CountOf(loadedModelFiles', last'.path) = CountOf(loadedModelFiles, last'.path) - 1
              /\ \A p \in Paths \ {last'.path} :
                     CountOf(loadedModelFiles', p) = CountOf(loadedModelFiles, p)
       /\ last'.op \notin {"manageLoadedModelFiles", "removeAnimation", "beforeunload"} =>
              loadedModelFiles' = loadedModelFiles]_vars

\* C23 witness: an acquire of a path completed, on top of an acquire by another
\* selection that was in flight at the same time, while a third selection of the
\* same path is still awaiting its load.
C23_Witness ==
    /\ last.op = "manageLoadedModelFiles"
    /\ last.prev # last.path
    /\ CountOf(last.before, last.path) = 1
    /\ CountOf(loadedModelFiles, last.path) = 2
    /\ \E t \in BagToSet(tasks) : t.pc = "load_file" /\ t.path = last.path


(***************************************************************************)
(* The animation entries when the backend may answer unload_file with an   *)
(* error: invoke() then rejects.                                           *)
(***************************************************************************)
NextUnloadFails ==
    \/ addAnimation /\ Unobserved
    \/ \E id \in Animations : removeAnimation(id) /\ Unobserved
    \/ \E id \in Animations : clickAnimationFile(id) /\ Unobserved
    \/ \E t \in BagToSet(tasks) : openNull(t) /\ Unobserved
    \/ \E t \in BagToSet(tasks), p \in Paths : openSelected(t, p) /\ Unobserved
    \/ \E t \in BagToSet(tasks) : loadFileNull(t) /\ Unobserved
    \/ \E t \in BagToSet(tasks) : loadFileLoaded(t) /\ Unobserved
    \/ \E t \in BagToSet(tasks) : unloadFileReturned(t) /\ Unobserved
    \/ \E t \in BagToSet(tasks) : unloadFileRejected(t) /\ Unobserved

SpecUnloadFails == Init /\ [][NextUnloadFails]_vars

\* C24: unload_file is fire-and-forget.  When the unload_file sent for the
\* previous path of a re-pick fails, the selection still completes: the entry's
\* file_source and selected file become the new path, in step with the counts
\* (one reference of the entry on the new path).
C24_UnloadFailureIsSwallowed ==
    [][\A t \in BagToSet(tasks) :
           (/\ t.pc = "unload_file"
            /\ last'.op = "unloadFileRejected"
            /\ tasks' = Resume(t)
            /\ OwnerLive(t)) =>
               /\ EntryOf(animationEntries', t.owner[1]).file_source = t.path
               /\ EntryOf(animationEntries', t.owner[1]).selectedFile = t.path]_vars


\* C25: an animation's source animation is the first animation of the loaded
\* file until the user chooses one in the Animation select; choosing one sets
\* source_animation of that entry to the chosen name and changes nothing else:
\* file_source, the other entries and the counts stay as they are.
C25_ChoosingSetsSourceAnimation ==
    [][/\ \A t \in BagToSet(tasks) :
              (Completes(t) /\ t.kind = "animation" /\ OwnerLive(t)
                  /\ animationEntries' # animationEntries) =>
                  EntryOf(animationEntries', t.owner[1]).source_animation
                      = Head(FileAnimations(t.path))
       /\ last'.op = "AnimationSourceAnimation" =>
              /\ loadedModelFiles' = loadedModelFiles
              /\ \E i \in DOMAIN animationEntries :
                     \E option \in DOMAIN animationEntries[i].availableAnimations :
                         animationEntries' =
                             [animationEntries EXCEPT
                                  ![i].source_animation = animationEntries[i].availableAnimations[option]]]_vars


\* C26: removing an animation entry releases its file exactly once.  When the
\* entry has a selected file, one release of that path is made as the entry
\* leaves the collection: its count drops by one (the path leaves the map and one
\* unload_file is sent when that was the last reference) and no other path is
\* touched.  When the entry has no selected file the map is left as it is and no
\* command is sent.
C26_RemoveAnimationReleasesOnce ==
    [][\A id \in Animations :
           (last'.op = "removeAnimation" /\ ~HasIdentifier(animationEntries', id)) =>
               LET path == EntryOf(animationEntries, id).selectedFile
                   unloads == IF CountOf(loadedModelFiles, path) <= 1 THEN 1 ELSE 0
               IN  /\ Identifiers(animationEntries') = Identifiers(animationEntries) \ {id}
                   /\ IF path = NoPath
                      THEN /\ loadedModelFiles' = loadedModelFiles
                           /\ IssuedInAll(last'.issued) = 0
                           /\ net' = net
                      ELSE /\ net'[path].all = net[path].all - 1
                           /\ CountOf(loadedModelFiles', path)
                                  = IF MapHas(loadedModelFiles, path)
                                    THEN loadedModelFiles[path] - 1 ELSE 0
                           /\ \A p \in Paths \ {path} :
                                  /\ net'[p] = net[p]
                                  /\ CountOf(loadedModelFiles', p) = CountOf(loadedModelFiles, p)
                           /\ Issued(last'.issued, "unload_file", path) = unloads
                           /\ IssuedInAll(last'.issued) = unloads]_vars

\* C26 witness: an animation entry without a selected file was removed while the
\* map held the file of another entry.
C26_Witness ==
    /\ last.op = "removeAnimation"
    /\ last.path = NoPath
    /\ loadedModelFiles # EmptyMap
    /\ \E i \in DOMAIN animationEntries :
           /\ animationEntries[i].selectedFile # NoPath
           /\ CountOf(loadedModelFiles, animationEntries[i].selectedFile) = 1


\* The grid sequence entry i shows and edits (its grid signal).
GridShown(i) == sequenceEntries[i].grid

\* C27: empty grid cells are exported, not omitted: for every sequence the
\* request carries exactly rows x columns animation names, in row-major order,
\* and the name at the position of an empty cell is the empty string.
C27_EveryCellExported ==
    Compiled =>
        \A i \in DOMAIN sequenceEntries :
            LET rows == Len(GridShown(i))
                columns == Len(GridShown(i)[1])
            IN  /\ Len(RequestAnimations(i)) = rows * columns
                /\ \A r \in 1..rows : \A c \in 1..columns :
                       RequestAnimations(i)[(r - 1) * columns + c] = GridShown(i)[r][c]

\* C28: at every point the grid stored for a sequence in the edit model, which
\* compileModel exports, equals the grid its entry shows and edits: for a
\* sequence just added, and after every addRow, removeRow, addColumn,
\* removeColumn and updateGridValue.
C28_StoredGridIsShownGrid ==
    \A i \in DOMAIN sequenceEntries : GridStored(i) = GridShown(i)


\* A grid with at least one row and one column whose rows have the same length.
Rectangular(grid) ==
    /\ Len(grid) >= 1
    /\ Len(grid[1]) >= 1
    /\ \A r \in DOMAIN grid : Len(grid[r]) = Len(grid[1])

\* The two grids have the same shape and differ at most in cell (rowIndex, columnIndex).
SameButCell(old, new, rowIndex, columnIndex) ==
    /\ Len(new) = Len(old)
    /\ \A r \in DOMAIN old :
           /\ Len(new[r]) = Len(old[r])
           /\ \A c \in DOMAIN old[r] :
                  (r # rowIndex \/ c # columnIndex) => new[r][c] = old[r][c]

\* C29: after any sequence of grid operations the grid of every sequence is
\* rectangular with at least one row and one column; removeRow on a grid of one
\* row and removeColumn on a grid of one column change nothing; updateGridValue
\* changes the addressed cell of one grid and nothing else.
C29_GridStaysRectangular ==
    [][/\ \A i \in DOMAIN sequenceEntries' : Rectangular(sequenceEntries'[i].grid)
       /\ last'.op = "removeRow" =>
              /\ Len(sequenceEntries') = Len(sequenceEntries)
              /\ \A i \in DOMAIN sequenceEntries :
                     Len(GridShown(i)) = 1 => sequenceEntries'[i] = sequenceEntries[i]
       /\ last'.op = "removeColumn" =>
              /\ Len(sequenceEntries') = Len(sequenceEntries)
              /\ \A i \in DOMAIN sequenceEntries :
                     Len(GridShown(i)[1]) = 1 => sequenceEntries'[i] = sequenceEntries[i]
       /\ last'.op = "updateGridValue" =>
              /\ Len(sequenceEntries') = Len(sequenceEntries)
              /\ \E i \in DOMAIN sequenceEntries :
                     /\ \E r \in GridIndexes, c \in GridIndexes :
                            SameButCell(GridShown(i), sequenceEntries'[i].grid, r, c)
                     /\ \A j \in DOMAIN sequenceEntries \ {i} :
                            sequenceEntries'[j] = sequenceEntries[j]]_vars

\* C29 witness: Remove Row was clicked on a grid of one row and two columns that
\* holds a name, and the grid is as it was.
C29_Witness ==
    /\ last.op = "removeRow"
    /\ userActions = 4
    /\ Len(sequenceEntries) = 1
    /\ GridShown(1) = << <<"idle", "">> >>


\* The names of the parts of the file a model has loaded, in file order.
LoadedParts(model) ==
    IF model.selectedFile = NoPath THEN <<>> ELSE FileParts(model.selectedFile)

\* One slot per part of the loaded file, each null or the name of its part.
SlotsMatchParts(model) ==
    /\ Len(model.part_names) = Len(LoadedParts(model))
    /\ Len(model.availableParts) = Len(model.part_names)
    /\ \A k \in DOMAIN model.part_names :
           model.part_names[k] \in {null, LoadedParts(model)[k]}

\* C30: for every model entry, a successful file selection leaves part_names
\* with one slot per part of the loaded file, in file order, every slot holding
\* its part's name; the checkbox of slot i changes slot i only, to that part's
\* name or to null; and in every state the list has one slot per available part,
\* slot i being null or the name of part i.
C30_PartSlotsFollowFile ==
    [][/\ \A i \in DOMAIN bodyPartEntries' : \A j \in DOMAIN bodyPartEntries'[i].models :
              SlotsMatchParts(bodyPartEntries'[i].models[j])
       /\ \A t \in BagToSet(tasks) :
              (Completes(t) /\ t.kind = "model" /\ OwnerLive(t)) =>
                  EntryOf(EntryOf(bodyPartEntries', t.owner[1]).models, t.owner[2]).part_names
                      = FileParts(t.path)
       /\ last'.op = "changeBodyPartModelPart" =>
              \E i \in DOMAIN bodyPartEntries : \E j \in DOMAIN bodyPartEntries[i].models :
                  \E k \in DOMAIN bodyPartEntries[i].models[j].part_names :
                      \E value \in {null, LoadedParts(bodyPartEntries[i].models[j])[k]} :
                          bodyPartEntries' =
                              [bodyPartEntries EXCEPT ![i].models[j].part_names[k] = value]]_vars

\* C30 witness: a file was loaded for a model and its first part was unticked.
C30_Witness ==
    /\ last.op = "changeBodyPartModelPart"
    /\ \E i \in DOMAIN bodyPartEntries : \E j \in DOMAIN bodyPartEntries[i].models :
           /\ bodyPartEntries[i].models[j].selectedFile = "a.smd"
           /\ bodyPartEntries[i].models[j].part_names = <<null, "a.smd#part1">>


=============================================================================
